---- MODULE Spec2Model ----
(***************************************************************************)
(* A model of the cellular-automata engine of emapco/CA-project:           *)
(* BaseCellularAutomata / CellularAutomata<T> (CAdatatypes.h,              *)
(* cellularautomata.cpp) and the geometry helpers of CA_utils.cpp.         *)
(*                                                                         *)
(* A buffer (vector, matrix, tensor and their next_ twins) is a record     *)
(* [alloc, shape, cells]: alloc is FALSE for a null pointer, shape holds    *)
(* the sizes the array was allocated with, cells maps its coordinates      *)
(* (tuples of 0-based indices) to the cell states.  The engine's axis      *)
(* sizes live in axis1_dim .. axis3_dim, apart from the buffers, exactly   *)
(* as in the class.  A method's return code is the operator named like     *)
(* the method; the call is the action of the same name in capitals.        *)
(***************************************************************************)
EXTENDS Integers, Sequences, FiniteSets, TLC

VARIABLES
    build,              \* "seq": compiled without ENABLE_OMP; "omp": compiled with it
    boundary_type, boundary_radius, neighborhood_type, num_states, rule_type,
    axis1_dim, axis2_dim, axis3_dim,
    vector, next_vector, matrix, next_matrix, tensor, next_tensor,
    steps_taken,
    oob,                \* history: some array access of the engine was out of bounds
    call                \* the last call of a helper function: its name, arguments and result

vars == <<build, boundary_type, boundary_radius, neighborhood_type,
          num_states, rule_type, axis1_dim, axis2_dim, axis3_dim,
          vector, next_vector, matrix, next_matrix, tensor, next_tensor,
          steps_taken, oob, call>>

config == <<boundary_type, boundary_radius, neighborhood_type, num_states, rule_type>>
dims == <<axis1_dim, axis2_dim, axis3_dim>>
buffers == <<vector, next_vector, matrix, next_matrix, tensor, next_tensor>>
platform == <<build>>

----------------------------------------------------------------------------
(* Bounds of the model *)

MaxRadius == 2
MaxStates == 3
MaxSteps == 2
MaxThreads == 2
MaxDim1 == 4
SeededDim == 3

----------------------------------------------------------------------------
(* CAEnums::ErrorCode *)

CellsAlreadyInitialized == -1
CellsAreNull == -2
CellsMalloc == -3
InvalidCellStateCondition == -5
InvalidRadius == -6
InvalidNumStates == -7
NeighborhoodCellsMalloc == -8
CustomRuleIsNull == -9
RadiusLargerThanDimensions == -10

Neighborhoods == {"VonNeumann", "Moore"}
Boundaries == {"Periodic", "Walled", "CutOff"}
Rules == {"Majority", "Parity", "Custom"}
Builds == {"seq", "omp"}

----------------------------------------------------------------------------
(* C arithmetic *)

\* a % b of C++ (the sign follows the dividend), b > 0
CMod(a, b) == IF a >= 0 THEN a % b ELSE -((-a) % b)

\* a / b of C++ (truncation toward zero), b > 0
CDiv(a, b) == IF a >= 0 THEN a \div b ELSE -((-a) \div b)

----------------------------------------------------------------------------
(* Buffers *)

Null == [alloc |-> FALSE, shape |-> <<>>, cells |-> <<>>]

\* the coordinates of an array allocated with the sizes in shape
Coords(shape) ==
    CASE Len(shape) = 1 -> {<<i>> : i \in 0..(shape[1] - 1)}
      [] Len(shape) = 2 -> {<<i, j>> : i \in 0..(shape[1] - 1), j \in 0..(shape[2] - 1)}
      [] OTHER -> {<<i, j, k>> : i \in 0..(shape[1] - 1), j \in 0..(shape[2] - 1),
                                 k \in 0..(shape[3] - 1)}

\* new (std::nothrow) T[...] followed by the fill loop
Filled(shape, fill_value) ==
    [alloc |-> TRUE, shape |-> shape, cells |-> [c \in Coords(shape) |-> fill_value]]

\* c is a coordinate inside the allocation of buf
InBounds(buf, c) == \A a \in 1..Len(c) : c[a] >= 0 /\ c[a] < buf.shape[a]

\* an array read; a read outside the allocation yields the value g that happens to lie there
Read(buf, c, g) == IF InBounds(buf, c) THEN buf.cells[c] ELSE g

----------------------------------------------------------------------------
(* CA_utils.cpp *)

is_diagonal_neighboring_cell_2d(i, j) == i # 0 /\ j # 0

\* every slice of the box treated as the middle slice
is_diagonal_neighboring_cell_3d_flat(i, j, k) == k # 0 /\ j # 0

is_diagonal_neighboring_cell_3d(i, j, k) ==
    IF i = 0 THEN k # 0 /\ j # 0 ELSE k # 0 \/ j # 0

get_periodic_index(i, di, axis_dim) == CMod(i + di + axis_dim, axis_dim)

RECURSIVE IntPow(_, _)
IntPow(b, e) == IF e = 0 THEN 1 ELSE b * IntPow(b, e - 1)

\* a size that leaves the rank out of the Moore case
get_neighborhood_size_flat(rank, radius, ntype) ==
    IF ntype = "VonNeumann" THEN (2 * rank * radius) + 1 ELSE (2 * radius + 1) * rank

get_neighborhood_size(rank, radius, ntype) ==
    IF ntype = "VonNeumann" THEN (2 * rank * radius) + 1 ELSE IntPow(2 * radius + 1, rank)

\* the x and y index of the matrix case exchanged
get_periodic_moore_neighbor_index_swapped(rank, radius, neighborhood_array_index) ==
    LET factor == 2 * radius + 1
        f2 == factor * factor
        adjusted_index == CMod(neighborhood_array_index, f2)
    IN CASE rank = 1 -> <<neighborhood_array_index - radius>>
         [] rank = 2 -> <<CMod(neighborhood_array_index, factor) - radius,
                          CDiv(neighborhood_array_index, factor) - radius>>
         [] OTHER -> <<CDiv(neighborhood_array_index, f2) - radius,
                       CDiv(adjusted_index, factor) - radius,
                       CMod(adjusted_index, factor) - radius>>

\* neighbor_index after the call, for rank 1, 2 or 3
get_periodic_moore_neighbor_index(rank, radius, neighborhood_array_index) ==
    LET factor == 2 * radius + 1
        f2 == factor * factor
        adjusted_index == CMod(neighborhood_array_index, f2)
    IN CASE rank = 1 -> <<neighborhood_array_index - radius>>
         [] rank = 2 -> <<CDiv(neighborhood_array_index, factor) - radius,
                          CMod(neighborhood_array_index, factor) - radius>>
         [] OTHER -> <<CDiv(neighborhood_array_index, f2) - radius,
                       CDiv(adjusted_index, factor) - radius,
                       CMod(adjusted_index, factor) - radius>>

\* neighbor_index after the call, for rank 1, 2 or 3
get_periodic_von_neumann_neighbor_index(rank, radius, neighborhood_array_index) ==
    LET length == (2 * rank * radius) + 1
        middle_cell_index == CDiv(length, 2)
        adjusted_index == neighborhood_array_index - radius
    IN CASE rank = 1 -> <<neighborhood_array_index - radius>>
         [] rank = 2 ->
                IF neighborhood_array_index < radius
                THEN <<-radius + neighborhood_array_index, 0>>
                ELSE IF length - neighborhood_array_index <= radius
                THEN <<neighborhood_array_index - length + 1 + radius, 0>>
                ELSE <<0, neighborhood_array_index - middle_cell_index>>
         [] OTHER ->
                IF neighborhood_array_index < radius
                THEN <<-radius + neighborhood_array_index, 0, 0>>
                ELSE IF length - neighborhood_array_index <= radius
                THEN <<neighborhood_array_index - length + 1 + radius, 0, 0>>
                ELSE IF adjusted_index < radius
                THEN <<0, -radius + adjusted_index, 0>>
                ELSE IF length - neighborhood_array_index - radius <= radius
                THEN <<0, neighborhood_array_index - length + 1 + 2 * radius, 0>>
                ELSE <<0, 0, neighborhood_array_index - middle_cell_index>>

----------------------------------------------------------------------------
(* The loops  for (int di = -boundary_radius; di <= boundary_radius; di++), *)
(* nested once per axis: the offsets in the order the loops visit them.     *)

\* f as an enumerated function
Eager(f) == f @@ <<>>

RECURSIVE Flatten(_)
Flatten(ss) == IF Len(ss) = 0 THEN <<>> ELSE Head(ss) \o Flatten(Tail(ss))

LoopRange(r) == [q \in 1..(2 * r + 1) |-> q - 1 - r]

Loop1(r) == [q \in 1..(2 * r + 1) |-> <<LoopRange(r)[q]>>]

Loop2(r) ==
    Flatten([a \in 1..(2 * r + 1) |->
                [b \in 1..(2 * r + 1) |-> <<LoopRange(r)[a], LoopRange(r)[b]>>]])

Loop3(r) ==
    Flatten([a \in 1..(2 * r + 1) |->
        Flatten([b \in 1..(2 * r + 1) |->
                    [c \in 1..(2 * r + 1) |->
                        <<LoopRange(r)[a], LoopRange(r)[b], LoopRange(r)[c]>>]])])

\* the offsets a neighborhood loop keeps: VonNeumann skips the diagonal ones
\* (in one dimension the two neighborhood types do not differ)
KeptOffsets(rank, ntype, r) ==
    CASE rank = 1 -> Loop1(r)
      [] rank = 2 ->
            IF ntype = "VonNeumann"
            THEN SelectSeq(Loop2(r), LAMBDA o : ~is_diagonal_neighboring_cell_2d(o[1], o[2]))
            ELSE Loop2(r)
      [] OTHER ->
            IF ntype = "VonNeumann"
            THEN SelectSeq(Loop3(r),
                           LAMBDA o : ~is_diagonal_neighboring_cell_3d(o[1], o[2], o[3]))
            ELSE Loop3(r)

\* KeptOffsets, tabulated for the radii of the model
OffsetTable ==
    [rank \in 1..3 |-> [ntype \in Neighborhoods |-> [r \in 1..MaxRadius |->
        Eager(KeptOffsets(rank, ntype, r))]]]

\* the offsets of the configured neighborhood for a grid of the given rank
Offsets(rank) == OffsetTable[rank][neighborhood_type][boundary_radius]

----------------------------------------------------------------------------
(* Neighborhood generation.  Each generate_* operator gives the sequence of *)
(* coordinates of the current buffer that the function reads, in the order  *)
(* in which it stores them into neighborhood_cells.                         *)

generate_periodic_neighborhood_1d(ci, offs) ==
    \* cell_index to flattened array
    [q \in 1..Len(offs) |-> <<get_periodic_index(ci[1], offs[q][1], axis1_dim)>>]

\* the bound test of the cutoff generators: neighbor_i <= 0 || neighbor_i >= axis_dim
CutoffOutside(neighbor, axis_dim) == neighbor <= 0 \/ neighbor >= axis_dim

\* stores vector[di], not vector[neighbor_i]
generate_cutoff_neighborhood_1d(ci, offs) ==
    SelectSeq(offs, LAMBDA o : ~CutoffOutside(o[1] + ci[1], axis1_dim))

generate_periodic_neighborhood_2d(ci, offs) ==
    [q \in 1..Len(offs) |->
        <<get_periodic_index(ci[1], offs[q][1], axis1_dim),
          get_periodic_index(ci[2], offs[q][2], axis2_dim)>>]

\* the offsets added to the focus
Shifted(ci, kept) == [q \in 1..Len(kept) |-> [a \in 1..Len(ci) |-> kept[q][a] + ci[a]]]

generate_cutoff_neighborhood_2d(ci, offs) ==
    Shifted(ci, SelectSeq(offs,
                    LAMBDA o : ~(CutoffOutside(o[1] + ci[1], axis1_dim)
                                 \/ CutoffOutside(o[2] + ci[2], axis2_dim))))

generate_periodic_neighborhood_3d(ci, offs) ==
    [q \in 1..Len(offs) |->
        <<get_periodic_index(ci[1], offs[q][1], axis1_dim),
          get_periodic_index(ci[2], offs[q][2], axis2_dim),
          get_periodic_index(ci[3], offs[q][3], axis3_dim)>>]

generate_cutoff_neighborhood_3d(ci, offs) ==
    Shifted(ci, SelectSeq(offs,
                    LAMBDA o : ~(CutoffOutside(o[1] + ci[1], axis1_dim)
                                 \/ CutoffOutside(o[2] + ci[2], axis2_dim)
                                 \/ CutoffOutside(o[3] + ci[3], axis3_dim))))

----------------------------------------------------------------------------
(* The grid the operations act on: they test vector, then matrix, then      *)
(* tensor for nullptr and use the first that is allocated.                  *)

ActiveRank ==
    IF vector.alloc THEN 1 ELSE IF matrix.alloc THEN 2 ELSE IF tensor.alloc THEN 3 ELSE 0

Current == IF vector.alloc THEN vector ELSE IF matrix.alloc THEN matrix ELSE tensor

NextBuf == IF vector.alloc THEN next_vector ELSE IF matrix.alloc THEN next_matrix ELSE next_tensor

\* the coordinates the loops  for (i < axis1_dim) [for (j < axis2_dim) [for (k < axis3_dim)]]
\* of step, init_condition and swap_states visit, in their (row-major) order
LoopCells ==
    CASE ActiveRank = 1 -> [q \in 1..axis1_dim |-> <<q - 1>>]
      [] ActiveRank = 2 ->
            Flatten([a \in 1..axis1_dim |-> [b \in 1..axis2_dim |-> <<a - 1, b - 1>>]])
      [] ActiveRank = 3 ->
            Flatten([a \in 1..axis1_dim |->
                Flatten([b \in 1..axis2_dim |->
                    [c \in 1..axis3_dim |-> <<a - 1, b - 1, c - 1>>]])])
      [] OTHER -> <<>>

SeqRange(s) == {s[q] : q \in 1..Len(s)}

----------------------------------------------------------------------------
(* Rules *)

\* the custom rule functions a client passes to step; "null" is nullptr
CustomRules == {"identity", "shift"}

\* custom_rule(cell_index, index_size, neighborhood_cells, neighborhood_size, new_cell_state):
\* "identity" leaves the cell and its index as they are; "shift" moves a
\* non-empty cell by +1 along axis 1 with periodic wrap; "gather" moves a
\* non-empty cell to index 0 of axis 1
ApplyCustomRule(custom, ci, vals, new) ==
    IF custom = "shift" /\ new # 0
    THEN [state |-> new, index |-> [ci EXCEPT ![1] = CMod(ci[1] + 1, axis1_dim)]]
    ELSE IF custom = "gather" /\ new # 0
    THEN [state |-> new, index |-> [ci EXCEPT ![1] = 0]]
    ELSE [state |-> new, index |-> ci]

\* vals[lo] + ... + vals[hi]
RECURSIVE SumRange(_, _, _)
SumRange(vals, lo, hi) ==
    IF lo > hi THEN 0
    ELSE IF lo = hi THEN vals[lo]
    ELSE SumRange(vals, lo, (lo + hi) \div 2) + SumRange(vals, (lo + hi) \div 2 + 1, hi)

SumSeq(vals) == SumRange(vals, 1, Len(vals))

\* the MajorityCounter after initialize_majority_rule_counter: the keys
\* 0 .. num_states-1 in the iteration order vo of the std::unordered_map
VoteKeys(vo) == SelectSeq(vo, LAMBDA s : s < num_states)

\* the votes of key s after the voting loop
Votes(vals, s) == Cardinality({q \in 1..Len(vals) : vals[q] = s})

\* std::max_element with less_than_votes: the first key, in iteration order,
\* that no other key beats
MaxElement(vals, vo) ==
    LET keys == VoteKeys(vo)
        best == CHOOSE q \in 1..Len(keys) :
                    /\ \A p \in 1..Len(keys) : Votes(vals, keys[p]) <= Votes(vals, keys[q])
                    /\ \A p \in 1..(q - 1) : Votes(vals, keys[p]) < Votes(vals, keys[q])
    IN keys[best]

ParityState(vals) == CMod(SumSeq(vals), num_states)

\* env: what the platform and the caller fix for one call of step:
\*   custom  the custom_rule argument ("null" is nullptr)
\*   vo      the iteration order of the MajorityCounter
\*   g       the value read by an access outside an allocation
\*   cancel  OMP_CANCELLATION is set, so  #pragma omp cancel for  takes effect
\*   nt      the number of threads of the parallel loop
set_new_cell_state(ci, vals, new, env) ==
    CASE rule_type = "Custom" ->
            IF env.custom = "null"
            THEN [err |-> CustomRuleIsNull, state |-> -1, index |-> ci]
            ELSE [err |-> 0] @@ ApplyCustomRule(env.custom, ci, vals, new)
      [] rule_type = "Parity" -> [err |-> 0, state |-> ParityState(vals), index |-> ci]
      [] rule_type = "Majority" -> [err |-> 0, state |-> MaxElement(vals, env.vo), index |-> ci]

----------------------------------------------------------------------------
(* get_state_from_neighborhood_Xd: the coordinates read, then the rule *)

IsWalledEdge1(ci) == ci[1] = 0 \/ ci[1] = axis1_dim - 1

IsWalledEdge2(ci) ==
    (ci[1] = 0 \/ ci[1] = axis1_dim - 1) \/ (ci[2] = 0 \/ ci[2] = axis2_dim - 1)

\* the third test compares j, not k, with axis3_dim - 1
IsWalledEdge3(ci) ==
    (ci[1] = 0 \/ ci[1] = axis1_dim - 1) \/ (ci[2] = 0 \/ ci[2] = axis2_dim - 1)
        \/ (ci[3] = 0 \/ ci[2] = axis3_dim - 1)

IsWalledEdge(ci) ==
    CASE ActiveRank = 1 -> IsWalledEdge1(ci)
      [] ActiveRank = 2 -> IsWalledEdge2(ci)
      [] OTHER -> IsWalledEdge3(ci)

\* the coordinates of the current grid read into neighborhood_cells for focus ci
NeighborhoodReads(ci) ==
    CASE ActiveRank = 1 ->
            IF boundary_type = "Periodic"
            THEN generate_periodic_neighborhood_1d(ci, Offsets(1))
            ELSE generate_cutoff_neighborhood_1d(ci, Offsets(1))
      [] ActiveRank = 2 ->
            IF boundary_type = "Periodic"
            THEN generate_periodic_neighborhood_2d(ci, Offsets(2))
            ELSE generate_cutoff_neighborhood_2d(ci, Offsets(2))
      [] OTHER ->
            IF boundary_type = "Periodic"
            THEN generate_periodic_neighborhood_3d(ci, Offsets(3))
            ELSE generate_cutoff_neighborhood_3d(ci, Offsets(3))

\* the values stored into neighborhood_cells when the coordinates in reads are read
NeighborhoodCells(reads, g) == Eager([q \in 1..Len(reads) |-> Read(Current, reads[q], g)])

\* a rule application that stores every new state at the first cell of the grid
RuleOnCellsAtOrigin(ci, reads, new, env) ==
    [set_new_cell_state(ci, NeighborhoodCells(reads, env.g), new, env)
        EXCEPT !.index = [a \in 1..Len(ci) |-> 0]]
        @@ [oob |-> FALSE]

\* the rule applied to the cells at reads: [err, state, index, oob]
RuleOnCells(ci, reads, new, env) ==
    set_new_cell_state(ci, NeighborhoodCells(reads, env.g), new, env)
        @@ [oob |-> \/ ~InBounds(Current, ci)
                    \/ \E q \in 1..Len(reads) : ~InBounds(Current, reads[q])]

\* [err, state, index, oob] for focus ci whose new_cell_state starts as new
get_state_from_neighborhood(ci, new, env) ==
    IF boundary_type = "Walled" /\ IsWalledEdge(ci)
    THEN [err |-> 0, state |-> new, index |-> ci, oob |-> ~InBounds(Current, ci)]
    ELSE RuleOnCells(ci, Eager(NeighborhoodReads(ci)), new, env)

----------------------------------------------------------------------------
(* step *)

\* stores that are made for empty new states too
StoreAllAlways(nb, tasks) ==
    [nb EXCEPT !.cells = [d \in DOMAIN nb.cells |->
        LET writers == {q \in 1..Len(tasks) : tasks[q].index = d}
        IN IF writers = {} THEN nb.cells[d]
           ELSE tasks[CHOOSE q \in writers : \A p \in writers : p <= q].state]]

\* stores of which the first to a cell stays
StoreAllFirstWins(nb, tasks) ==
    [nb EXCEPT !.cells = [d \in DOMAIN nb.cells |->
        LET writers == {q \in 1..Len(tasks) : tasks[q].state # 0 /\ tasks[q].index = d}
        IN IF writers = {} THEN nb.cells[d]
           ELSE tasks[CHOOSE q \in writers : \A p \in writers : q <= p].state]]

\* tasks: the iterations whose store is reached, in the order of their stores.
\* if (new_cell_state != empty_cell_state) next[cell_index] = new_cell_state;
\* the last store to a cell stays; a store outside the allocation leaves the buffer as it is
StoreAll(nb, tasks) ==
    [nb EXCEPT !.cells = [d \in DOMAIN nb.cells |->
        LET writers == {q \in 1..Len(tasks) : tasks[q].state # 0 /\ tasks[q].index = d}
        IN IF writers = {} THEN nb.cells[d]
           ELSE tasks[CHOOSE q \in writers : \A p \in writers : p <= q].state]]

\* the position in order of the first iteration that fails, Len(order) + 1 if none does
FirstError(order, results) ==
    LET errs == {q \in 1..Len(order) : results[order[q]].err < 0}
    IN IF errs = {} THEN Len(order) + 1 ELSE CHOOSE q \in errs : \A p \in errs : q <= p

\* the iterations of order that run before the loop is left: all of them, or,
\* where an error leaves the loop (stop), those before the first error
Reached(order, results, stop) ==
    [q \in 1..((IF stop THEN FirstError(order, results) ELSE Len(order) + 1) - 1) |->
        results[order[q]]]

\* schedule(static) over the outermost index: thread th of nt gets one block of it
Chunk(cells, th, nt) ==
    SelectSeq(cells, LAMBDA c : /\ c[1] >= (th - 1) * ((axis1_dim + nt - 1) \div nt)
                                /\ c[1] < th * ((axis1_dim + nt - 1) \div nt))

\* c is one of the coordinates the loops over the axis sizes visit
Visited(c) ==
    /\ c[1] < axis1_dim
    /\ Len(c) >= 2 => c[2] < axis2_dim
    /\ Len(c) >= 3 => c[3] < axis3_dim

\* a swap_states that exchanges nothing
SwapCellsKeep(a, b) == a

\* swap_states: std::swap of every pair of cells the loops visit; the cells of a after it
SwapCells(a, b) ==
    [a EXCEPT !.cells = [c \in DOMAIN a.cells |->
        IF Visited(c) /\ InBounds(b, c) THEN b.cells[c] ELSE a.cells[c]]]

\* the loop body for every focus of cells, up to the test of error_code:
\* new_cell_state is a copy of the focus, then get_state_from_neighborhood_Xd
CellResults(cells, env) ==
    Eager([c \in SeqRange(cells) |->
              get_state_from_neighborhood(c, Read(Current, c, env.g), env)])

\* the iterations that reach their store, in the order of the stores.  Without
\* ENABLE_OMP the first error returns from step.  With it each thread runs its
\* block; an error ends the thread's block only if cancellation is active.
Stores(cells, results, env) ==
    IF build = "seq" THEN Reached(cells, results, TRUE)
    ELSE Flatten([q \in 1..env.nt |->
                     Reached(Chunk(cells, q, env.nt), results, env.cancel)])

\* a step that returns the error code only after swap_states and steps_taken++
StepOutcomeLateReturn(cells, results, ran, nb) ==
    [ret |-> IF FirstError(cells, results) <= Len(cells)
             THEN results[cells[FirstError(cells, results)]].err ELSE 0,
     current |-> SwapCells(Current, nb), next |-> SwapCells(nb, Current),
     swapped |-> TRUE, oob |-> \E c \in SeqRange(cells) : results[c].oob]

\* the end of step: in the build without ENABLE_OMP an error is returned before
\* swap_states; otherwise swap_states and steps_taken++
StepOutcome(cells, results, ran, nb) ==
    IF build = "seq" /\ FirstError(cells, results) <= Len(cells)
    THEN [ret |-> results[cells[FirstError(cells, results)]].err,
          current |-> Current, next |-> nb, swapped |-> FALSE,
          oob |-> \/ \E q \in 1..Len(ran) : ran[q].oob
                  \/ results[cells[FirstError(cells, results)]].oob]
    ELSE [ret |-> 0, current |-> SwapCells(Current, nb),
          next |-> SwapCells(nb, Current), swapped |-> TRUE,
          oob |-> \/ \E c \in SeqRange(cells) : results[c].oob
                  \/ \E q \in 1..Len(ran) :
                        ran[q].state # 0 /\ ~InBounds(NextBuf, ran[q].index)]

StepStores(cells, results, ran) == StepOutcome(cells, results, ran, StoreAll(NextBuf, ran))

StepLoop(cells, results, env) == StepStores(cells, results, Eager(Stores(cells, results, env)))

StepCells(cells, env) == StepLoop(cells, CellResults(cells, env), env)

\* the whole of step(custom_rule): [ret, current, next, swapped, oob]
step(env) ==
    IF ActiveRank = 0
    THEN [ret |-> CellsAreNull, current |-> Current, next |-> NextBuf,
          swapped |-> FALSE, oob |-> FALSE]
    ELSE StepCells(Eager(LoopCells), env)

\* the threads of the parallel loop interleave: sched is the order in which
\* the stores of the iterations take place
Perms(n) == {sched \in [1..n -> 1..n] : \A a, b \in 1..n : sched[a] = sched[b] => a = b}

StepOrdered(cells, results, ran, sched) ==
    StepStores(cells, results, Eager([q \in 1..Len(ran) |-> ran[sched[q]]]))

StepOrderedLoop(cells, results, env, sched) ==
    StepOrdered(cells, results, Eager(Stores(cells, results, env)), sched)

\* step(custom_rule) of a grid when every iteration reaches its store and the
\* stores happen in the order sched
step_scheduled(env, sched) ==
    StepOrderedLoop(Eager(LoopCells), CellResults(Eager(LoopCells), env), env, sched)

----------------------------------------------------------------------------
(* Inputs of the public operations *)

Shapes1 == {<<n>> : n \in 1..MaxDim1}
Shapes2 == {<<3, 3>>}
Shapes3 == {<<3, 3, 3>>, <<1, 2, 2>>}
FillValues == {0, 1}
Garbage == {0, 1}

\* the iteration orders of std::unordered_map<int, int> considered: the keys
\* in insertion order and in reverse insertion order
VotesOrders == {[q \in 1..MaxStates |-> q - 1], [q \in 1..MaxStates |-> MaxStates - q]}

\* a read of step can fall outside the allocation: the 1d cutoff generator
\* indexes with the offset, and the axis sizes can differ from the allocation
MayReadOutside ==
    \/ ActiveRank = 1 /\ boundary_type # "Periodic"
    \/ ActiveRank = 1 /\ Current.shape # <<axis1_dim>>
    \/ ActiveRank = 2 /\ Current.shape # <<axis1_dim, axis2_dim>>
    \/ ActiveRank = 3 /\ Current.shape # <<axis1_dim, axis2_dim, axis3_dim>>

\* the calls of step that can differ in the current state: the custom rule is
\* only called under rule Custom, the iteration order of the counter only matters
\* under rule Majority, threads only exist in a build with ENABLE_OMP and only
\* an error makes them differ
StepEnvs ==
    [custom : IF rule_type = "Custom" THEN CustomRules ELSE {"null"},
     vo : IF rule_type = "Majority" THEN VotesOrders ELSE {<<>>},
     g : IF MayReadOutside THEN Garbage ELSE {0},
     cancel : {FALSE}, nt : {1}]
    \cup
    [custom : IF rule_type = "Custom" THEN {"null"} ELSE {},
     vo : {<<>>},
     g : IF MayReadOutside THEN Garbage ELSE {0},
     cancel : IF build = "omp" THEN BOOLEAN ELSE {FALSE},
     nt : IF build = "omp" THEN 1..MaxThreads ELSE {1}]

\* the sets of visited cells whose random draw falls below prob in init_condition
SeedSets ==
    LET cells == SeqRange(LoopCells)
        SumOf(c) == IF Len(c) = 1 THEN c[1] ELSE IF Len(c) = 2 THEN c[1] + c[2]
                    ELSE c[1] + c[2] + c[3]
    IN {cells, {c \in cells : SumOf(c) = 0}}

----------------------------------------------------------------------------
(* The state after the constructors *)

\* no helper function has been called from outside the engine
NoCall == [fn |-> "none", args |-> <<>>, ret |-> <<>>]

Init ==
    /\ build \in Builds
    /\ axis1_dim = 0 /\ axis2_dim = 0 /\ axis3_dim = 0
    /\ num_states = 2
    /\ boundary_type = "Periodic"
    /\ boundary_radius = 1
    /\ neighborhood_type = "Moore"
    /\ rule_type = "Majority"
    /\ steps_taken = 0
    /\ vector = Null /\ next_vector = Null
    /\ matrix = Null /\ next_matrix = Null
    /\ tensor = Null /\ next_tensor = Null
    /\ oob = FALSE
    /\ call = NoCall

----------------------------------------------------------------------------
(* The public operations.  An operator named like the method gives the      *)
(* method's return code in the current state; the action of the same name   *)
(* in capitals is the call.                                                 *)

SetupNeighborhood(n) ==
    /\ neighborhood_type' = n
    /\ UNCHANGED <<platform, call, boundary_type, boundary_radius, num_states, rule_type,
                   dims, buffers, steps_taken, oob>>

\* a test of num_states < 1 in place of num_states < 2
setup_cell_states_below_one(n) == IF n < 1 THEN InvalidNumStates ELSE 0

setup_cell_states(n) == IF n < 2 THEN InvalidNumStates ELSE 0

SetupCellStates(n) ==
    /\ num_states' = IF setup_cell_states(n) = 0 THEN n ELSE num_states
    /\ UNCHANGED <<platform, call, boundary_type, boundary_radius, neighborhood_type, rule_type,
                   dims, buffers, steps_taken, oob>>

SetupRule(r) ==
    /\ rule_type' = r
    /\ UNCHANGED <<platform, call, boundary_type, boundary_radius, neighborhood_type, num_states,
                   dims, buffers, steps_taken, oob>>

setup_boundary(bound_type, radius) ==
    IF radius <= 0 THEN InvalidRadius
    ELSE IF vector.alloc
         THEN (IF radius > CDiv(axis1_dim, 2) THEN RadiusLargerThanDimensions ELSE 0)
    ELSE IF matrix.alloc
         THEN (IF radius > CDiv(axis1_dim, 2) \/ radius > CDiv(axis2_dim, 2)
               THEN RadiusLargerThanDimensions ELSE 0)
    ELSE IF tensor.alloc
         THEN (IF radius > CDiv(axis2_dim, 2) \/ radius > CDiv(axis3_dim, 2)
               THEN RadiusLargerThanDimensions ELSE 0)
    ELSE 0

SetupBoundary(bound_type, radius) ==
    /\ IF setup_boundary(bound_type, radius) = 0
       THEN boundary_type' = bound_type /\ boundary_radius' = radius
       ELSE UNCHANGED <<boundary_type, boundary_radius>>
    /\ UNCHANGED <<platform, call, neighborhood_type, num_states, rule_type,
                   dims, buffers, steps_taken, oob>>

\* mem: the outcome of the two  new (std::nothrow)  of the top-level arrays of a
\* call, [cur, next]: FALSE where the allocation returns nullptr.  The row
\* allocations of a matrix or tensor, which the code does not test, succeed.
AllocOutcomes == [cur : BOOLEAN, next : BOOLEAN]

AllocOk == [cur |-> TRUE, next |-> TRUE]

\* an array that was allocated and not written: u holds what its cells contain
Unfilled(shape, u) == [alloc |-> TRUE, shape |-> shape, cells |-> u]

\* the pointer after  p = new (std::nothrow) ...  when the method returns CellsMalloc
AfterFailedSetup(ok, shape, u) == IF ok THEN Unfilled(shape, u) ELSE Null

setup_dimensions_1d_mem(d1, fill_value, mem) ==
    IF vector.alloc THEN CellsAlreadyInitialized
    ELSE IF ~mem.cur \/ ~mem.next THEN CellsMalloc ELSE 0

SetupDimensions1dMem(d1, fill_value, mem) ==
    /\ CASE setup_dimensions_1d_mem(d1, fill_value, mem) = 0 ->
               /\ axis1_dim' = d1
               /\ vector' = Filled(<<d1>>, fill_value)
               /\ next_vector' = Filled(<<d1>>, fill_value)
         [] setup_dimensions_1d_mem(d1, fill_value, mem) = CellsMalloc ->
               /\ axis1_dim' = d1
               /\ \E u \in [Coords(<<d1>>) -> Garbage] :
                     vector' = AfterFailedSetup(mem.cur, <<d1>>, u)
               /\ \E u \in [Coords(<<d1>>) -> Garbage] :
                     next_vector' = AfterFailedSetup(mem.next, <<d1>>, u)
         [] OTHER -> UNCHANGED <<axis1_dim, vector, next_vector>>
    /\ UNCHANGED <<platform, call, config, axis2_dim, axis3_dim, matrix, next_matrix,
                   tensor, next_tensor, steps_taken, oob>>

setup_dimensions_1d(d1, fill_value) == setup_dimensions_1d_mem(d1, fill_value, AllocOk)

SetupDimensions1d(d1, fill_value) == SetupDimensions1dMem(d1, fill_value, AllocOk)

\* after CellsMalloc a top-level array that was allocated holds d1 row pointers
\* that were never set: no cell lies behind them
setup_dimensions_2d_mem(d1, d2, fill_value, mem) ==
    IF matrix.alloc THEN CellsAlreadyInitialized
    ELSE IF ~mem.cur \/ ~mem.next THEN CellsMalloc ELSE 0

SetupDimensions2dMem(d1, d2, fill_value, mem) ==
    /\ CASE setup_dimensions_2d_mem(d1, d2, fill_value, mem) = 0 ->
               /\ axis1_dim' = d1 /\ axis2_dim' = d2
               /\ matrix' = Filled(<<d1, d2>>, fill_value)
               /\ next_matrix' = Filled(<<d1, d2>>, fill_value)
         [] setup_dimensions_2d_mem(d1, d2, fill_value, mem) = CellsMalloc ->
               /\ axis1_dim' = d1 /\ axis2_dim' = d2
               /\ matrix' = AfterFailedSetup(mem.cur, <<d1, 0>>, <<>>)
               /\ next_matrix' = AfterFailedSetup(mem.next, <<d1, 0>>, <<>>)
         [] OTHER -> UNCHANGED <<axis1_dim, axis2_dim, matrix, next_matrix>>
    /\ UNCHANGED <<platform, call, config, axis3_dim, vector, next_vector,
                   tensor, next_tensor, steps_taken, oob>>

setup_dimensions_2d(d1, d2, fill_value) == setup_dimensions_2d_mem(d1, d2, fill_value, AllocOk)

SetupDimensions2d(d1, d2, fill_value) == SetupDimensions2dMem(d1, d2, fill_value, AllocOk)

setup_dimensions_3d_mem(d1, d2, d3, fill_value, mem) ==
    IF tensor.alloc THEN CellsAlreadyInitialized
    ELSE IF ~mem.cur \/ ~mem.next THEN CellsMalloc ELSE 0

SetupDimensions3dMem(d1, d2, d3, fill_value, mem) ==
    /\ CASE setup_dimensions_3d_mem(d1, d2, d3, fill_value, mem) = 0 ->
               /\ axis1_dim' = d1 /\ axis2_dim' = d2 /\ axis3_dim' = d3
               /\ tensor' = Filled(<<d1, d2, d3>>, fill_value)
               /\ next_tensor' = Filled(<<d1, d2, d3>>, fill_value)
         [] setup_dimensions_3d_mem(d1, d2, d3, fill_value, mem) = CellsMalloc ->
               /\ axis1_dim' = d1 /\ axis2_dim' = d2 /\ axis3_dim' = d3
               /\ tensor' = AfterFailedSetup(mem.cur, <<d1, 0, 0>>, <<>>)
               /\ next_tensor' = AfterFailedSetup(mem.next, <<d1, 0, 0>>, <<>>)
         [] OTHER -> UNCHANGED <<axis1_dim, axis2_dim, axis3_dim, tensor, next_tensor>>
    /\ UNCHANGED <<platform, call, config, vector, next_vector, matrix, next_matrix,
                   steps_taken, oob>>

setup_dimensions_3d(d1, d2, d3, fill_value) ==
    setup_dimensions_3d_mem(d1, d2, d3, fill_value, AllocOk)

SetupDimensions3d(d1, d2, d3, fill_value) ==
    SetupDimensions3dMem(d1, d2, d3, fill_value, AllocOk)

\* the grid tested before x_state
init_condition_grid_first(x_state) ==
    IF ActiveRank = 0 THEN CellsAreNull
    ELSE IF ~(x_state < num_states) THEN InvalidCellStateCondition ELSE 0

init_condition(x_state) ==
    IF ~(x_state < num_states) THEN InvalidCellStateCondition
    ELSE IF ActiveRank = 0 THEN CellsAreNull ELSE 0

\* hit: the visited cells whose draw (double)rand() / RAND_MAX fell below prob
SeededCells(buf, x_state, hit) ==
    [buf EXCEPT !.cells = [c \in DOMAIN buf.cells |->
                              IF c \in hit THEN x_state ELSE buf.cells[c]]]

InitCondition(x_state, hit) ==
    /\ IF init_condition(x_state) = 0
       THEN /\ vector' = IF ActiveRank = 1 THEN SeededCells(vector, x_state, hit) ELSE vector
            /\ matrix' = IF ActiveRank = 2 THEN SeededCells(matrix, x_state, hit) ELSE matrix
            /\ tensor' = IF ActiveRank = 3 THEN SeededCells(tensor, x_state, hit) ELSE tensor
            /\ oob' = (oob \/ \E c \in hit : ~InBounds(Current, c))
       ELSE UNCHANGED <<vector, matrix, tensor, oob>>
    /\ UNCHANGED <<platform, call, config, dims, next_vector, next_matrix, next_tensor, steps_taken>>

Step(env) ==
    /\ steps_taken < MaxSteps
    /\ UNCHANGED <<platform, call, config, dims>>
    /\ \E r \in {step(env)} :
          /\ vector' = IF ActiveRank = 1 THEN r.current ELSE vector
          /\ next_vector' = IF ActiveRank = 1 THEN r.next ELSE next_vector
          /\ matrix' = IF ActiveRank = 2 THEN r.current ELSE matrix
          /\ next_matrix' = IF ActiveRank = 2 THEN r.next ELSE next_matrix
          /\ tensor' = IF ActiveRank = 3 THEN r.current ELSE tensor
          /\ next_tensor' = IF ActiveRank = 3 THEN r.next ELSE next_tensor
          /\ steps_taken' = IF r.swapped THEN steps_taken + 1 ELSE steps_taken
          /\ oob' = (oob \/ r.oob)

\* step in the build with ENABLE_OMP: the iterations run on threads and
\* their stores take place in the order sched
StepScheduled(env, sched) ==
    /\ steps_taken < MaxSteps
    /\ build = "omp" /\ ActiveRank # 0
    /\ UNCHANGED <<platform, call, config, dims>>
    /\ \E r \in {step_scheduled(env, sched)} :
          /\ vector' = IF ActiveRank = 1 THEN r.current ELSE vector
          /\ next_vector' = IF ActiveRank = 1 THEN r.next ELSE next_vector
          /\ matrix' = IF ActiveRank = 2 THEN r.current ELSE matrix
          /\ next_matrix' = IF ActiveRank = 2 THEN r.next ELSE next_matrix
          /\ tensor' = IF ActiveRank = 3 THEN r.current ELSE tensor
          /\ next_tensor' = IF ActiveRank = 3 THEN r.next ELSE next_tensor
          /\ steps_taken' = IF r.swapped THEN steps_taken + 1 ELSE steps_taken
          /\ oob' = (oob \/ r.oob)

print_grid == IF ActiveRank = 0 THEN CellsAreNull ELSE 0

PrintGrid == UNCHANGED vars

----------------------------------------------------------------------------
(* Spec: a driver that configures, allocates one grid and seeds it in any   *)
(* order before the first step that succeeds, then steps.                   *)

Configuring == steps_taken = 0

Next ==
    \/ Configuring /\ \E n \in Neighborhoods : SetupNeighborhood(n)
    \/ Configuring /\ \E n \in 1..MaxStates : SetupCellStates(n)
    \/ Configuring /\ \E r \in Rules : SetupRule(r)
    \/ Configuring /\ \E b \in Boundaries, r \in 0..MaxRadius : SetupBoundary(b, r)
    \/ Configuring /\ ActiveRank = 0
          /\ \E sh \in Shapes1, f \in FillValues : SetupDimensions1d(sh[1], f)
    \/ Configuring /\ ActiveRank = 0
          /\ \E sh \in Shapes2, f \in FillValues : SetupDimensions2d(sh[1], sh[2], f)
    \/ Configuring /\ ActiveRank = 0
          /\ \E sh \in Shapes3, f \in FillValues : SetupDimensions3d(sh[1], sh[2], sh[3], f)
    \/ Configuring /\ \E x \in 0..MaxStates, hit \in SeedSets : InitCondition(x, hit)
    \/ \E env \in StepEnvs : Step(env)
    \/ PrintGrid

Spec == Init /\ [][Next]_vars

----------------------------------------------------------------------------
(* SpecSetup: a driver that calls setup_boundary and the setup_dimensions_* *)
(* methods in any order and any number of times.                            *)

NextSetup ==
    \/ \E b \in Boundaries, r \in 0..MaxRadius : SetupBoundary(b, r)
    \/ \E sh \in Shapes1, f \in FillValues : SetupDimensions1d(sh[1], f)
    \/ \E sh \in Shapes2, f \in FillValues : SetupDimensions2d(sh[1], sh[2], f)
    \/ \E sh \in Shapes3, f \in FillValues : SetupDimensions3d(sh[1], sh[2], sh[3], f)
    \/ PrintGrid

SpecSetup == Init /\ [][NextSetup]_vars

----------------------------------------------------------------------------
(* SpecSeeded: a vector of SeededDim cells under the constructor's boundary, *)
(* radius and neighborhood.  setup_cell_states, setup_rule and               *)
(* setup_dimensions_1d have been called, and calls of init_condition, whose  *)
(* random draws can leave any pattern of states below num_states, have       *)
(* seeded it.  The driver steps it.                                          *)

InitSeeded ==
    /\ build \in Builds
    /\ boundary_type = "Periodic"
    /\ boundary_radius = 1
    /\ neighborhood_type = "Moore"
    /\ num_states \in 2..MaxStates
    /\ rule_type \in Rules
    /\ axis1_dim = SeededDim /\ axis2_dim = 0 /\ axis3_dim = 0
    /\ steps_taken = 0
    /\ vector \in [alloc : {TRUE}, shape : {<<SeededDim>>},
                   cells : [Coords(<<SeededDim>>) -> 0..(MaxStates - 1)]]
    /\ \A c \in DOMAIN vector.cells : vector.cells[c] < num_states
    /\ \E f \in FillValues : next_vector = Filled(<<SeededDim>>, f)
    /\ matrix = Null /\ next_matrix = Null
    /\ tensor = Null /\ next_tensor = Null
    /\ oob = FALSE
    /\ call = NoCall

NextSeeded == \E env \in StepEnvs : Step(env)

SpecSeeded == InitSeeded /\ [][NextSeeded]_vars

----------------------------------------------------------------------------
(* What the specification says of a grid, stated over the state of the      *)
(* automaton.                                                               *)

\* the size of axis a (1, 2 or 3)
AxisDim(a) == IF a = 1 THEN axis1_dim ELSE IF a = 2 THEN axis2_dim ELSE axis3_dim

\* the cells of the configured grid
GridCells == SeqRange(LoopCells)

\* the transition is a call of step that succeeded
StepSucceeded == steps_taken' = steps_taken + 1

\* the neighborhood of c under the Periodic boundary: every offset of the
\* configured shape and radius, wrapped on every axis
PeriodicNeighborhood(c) ==
    [q \in 1..Len(Offsets(ActiveRank)) |->
        [a \in 1..ActiveRank |-> (c[a] + Offsets(ActiveRank)[q][a]) % AxisDim(a)]]

\* the states of the cells of the current grid at the coordinates in nbh
StatesAt(nbh) == [q \in 1..Len(nbh) |-> Current.cells[nbh[q]]]

\* C1: under rule Parity with Periodic boundary, after every successful step
\* every cell of the current grid holds the sum of the states its neighborhood
\* (the cell included) had before the step, modulo num_states.
C1_ParityPeriodicStep ==
    [][(rule_type = "Parity" /\ boundary_type = "Periodic" /\ StepSucceeded)
        => \A c \in GridCells :
              Current'.cells[c] = SumSeq(StatesAt(PeriodicNeighborhood(c))) % num_states]_vars

\* the neighborhood of c under the CutOff boundary: the same offsets, those
\* dropped whose coordinate leaves the grid on some axis
CutoffNeighborhood(c) ==
    SelectSeq(Shifted(c, Offsets(ActiveRank)),
              LAMBDA n : \A a \in 1..ActiveRank : n[a] >= 0 /\ n[a] < AxisDim(a))

SpecNeighborhood(c) ==
    IF boundary_type = "Periodic" THEN PeriodicNeighborhood(c) ELSE CutoffNeighborhood(c)

\* c lies at index 0 or Di-1 on some active axis
IsEdge(c) == \E a \in 1..ActiveRank : c[a] = 0 \/ c[a] = AxisDim(a) - 1

\* the lowest state of [0, num_states) with the highest count in vals
LowestMajority(vals) ==
    CHOOSE s \in 0..(num_states - 1) :
        /\ \A t \in 0..(num_states - 1) : Votes(vals, t) <= Votes(vals, s)
        /\ \A t \in 0..(s - 1) : Votes(vals, t) < Votes(vals, s)

\* C2: under rule Majority the new state of a focus cell is the state of
\* [0, num_states) with the highest count among the cells of its neighborhood,
\* and the lowest such state when several attain that count (a Walled edge
\* cell has no new state to compute).
C2_MajorityLowestTie ==
    (rule_type = "Majority" /\ ActiveRank # 0) =>
        \A c \in GridCells, env \in StepEnvs :
            (boundary_type = "Walled" /\ IsEdge(c)) \/
            set_new_cell_state(c, NeighborhoodCells(Eager(NeighborhoodReads(c)), env.g),
                               Current.cells[c], env).state
                = LowestMajority(NeighborhoodCells(Eager(NeighborhoodReads(c)), env.g))

\* C3: if before a successful Majority step every cell of the neighborhood of
\* a focus cell (the focus included) has state s, the focus has state s after
\* the step, for s = 0 as for every other state, at the first step and later.
C3_MajorityStable ==
    [][(rule_type = "Majority" /\ StepSucceeded)
        => \A c \in GridCells, s \in 0..(num_states - 1) :
              (\A q \in 1..Len(SpecNeighborhood(c)) : StatesAt(SpecNeighborhood(c))[q] = s)
                  => Current'.cells[c] = s]_vars

\* C4: with the Walled boundary, under every rule and for every rank, a cell
\* at index 0 or Di-1 on some active axis has the same value after a
\* successful step as before it.
C4_WalledEdgesFixed ==
    [][(boundary_type = "Walled" /\ StepSucceeded)
        => \A c \in GridCells : IsEdge(c) => Current'.cells[c] = Current.cells[c]]_vars

\* C5: under CutOff, and for the cells off the edge under Walled, the cells
\* read into the neighborhood of c are exactly those at c+o for the offsets o
\* whose coordinate lies inside the grid on every axis, index 0 included.
C5_CutoffNeighborhood ==
    (ActiveRank # 0 /\ boundary_type # "Periodic") =>
        \A c \in GridCells :
            (boundary_type = "CutOff" \/ ~IsEdge(c))
                => NeighborhoodReads(c) = CutoffNeighborhood(c)

\* C6: once a grid is allocated, every call of setup_dimensions_1d, _2d or _3d
\* returns CellsAlreadyInitialized and leaves the buffers and the axis sizes
\* as they are.
C6_SingleAllocation ==
    [][ActiveRank # 0 =>
        /\ \A sh \in Shapes1, f \in FillValues : SetupDimensions1d(sh[1], f) =>
              /\ setup_dimensions_1d(sh[1], f) = CellsAlreadyInitialized
              /\ UNCHANGED <<dims, buffers>>
        /\ \A sh \in Shapes2, f \in FillValues : SetupDimensions2d(sh[1], sh[2], f) =>
              /\ setup_dimensions_2d(sh[1], sh[2], f) = CellsAlreadyInitialized
              /\ UNCHANGED <<dims, buffers>>
        /\ \A sh \in Shapes3, f \in FillValues : SetupDimensions3d(sh[1], sh[2], sh[3], f) =>
              /\ setup_dimensions_3d(sh[1], sh[2], sh[3], f) = CellsAlreadyInitialized
              /\ UNCHANGED <<dims, buffers>>]_vars

\* the code setup_boundary is specified to return for radius r
BoundaryCode(r) ==
    IF r <= 0 THEN InvalidRadius
    ELSE IF ActiveRank # 0 /\ \E a \in 1..ActiveRank : r > AxisDim(a) \div 2
         THEN RadiusLargerThanDimensions
    ELSE 0

\* C7: setup_boundary(b, r) returns InvalidRadius when r <= 0 and
\* RadiusLargerThanDimensions when a grid is configured and r exceeds half of
\* some active axis (axis 1 of a tensor included), and then keeps the boundary
\* type and radius; otherwise it returns 0 and stores b and r.
C7_SetupBoundary ==
    [][\A b \in Boundaries, r \in 0..MaxRadius : SetupBoundary(b, r) =>
        /\ setup_boundary(b, r) = BoundaryCode(r)
        /\ BoundaryCode(r) # 0 => UNCHANGED <<boundary_type, boundary_radius>>
        /\ BoundaryCode(r) = 0 => boundary_type' = b /\ boundary_radius' = r]_vars

\* C8: whenever a grid is configured, boundary_radius is at most half of every
\* active axis, whatever the order of setup_boundary and setup_dimensions_*.
C8_RadiusWithinDims ==
    ActiveRank # 0 => \A a \in 1..ActiveRank : boundary_radius <= AxisDim(a) \div 2

\* C9: with rule Custom, a step called without a custom rule function returns
\* CustomRuleIsNull, whatever the size, rank and boundary of the grid.
C9_NullCustomRule ==
    [][\A env \in StepEnvs :
        (rule_type = "Custom" /\ ActiveRank # 0 /\ env.custom = "null" /\ Step(env))
            => step(env).ret = CustomRuleIsNull]_vars

\* some rule application of step(env) returns an error
StepFails(env) ==
    /\ ActiveRank # 0
    /\ FirstError(LoopCells, CellResults(LoopCells, env)) <= Len(LoopCells)

\* C10: if a rule application fails during step, with or without OpenMP, step
\* returns the negative code, does not swap the buffers, and leaves the
\* current grid and steps_taken as they were.
C10_FailedStepKeepsState ==
    [][\A env \in StepEnvs : (StepFails(env) /\ Step(env)) =>
        /\ step(env).ret < 0
        /\ UNCHANGED <<vector, matrix, tensor, steps_taken>>]_vars

----------------------------------------------------------------------------
(* SpecOps: a client of one vector of two cells that calls the public       *)
(* operations in any order, before and after steps, with arguments in and    *)
(* out of their valid ranges (a too large x_state, a num_states below 2, a   *)
(* radius of 0).                                                             *)

OpsShapes == {<<2>>}
OpsNumStates == {0, 1, 2, MaxStates}
OpsSeeds == {0, 1, MaxStates}
OpsRadii == {0, 1}
OpsBoundaries == {"Periodic", "Walled"}

NextOps ==
    \/ \E n \in Neighborhoods : SetupNeighborhood(n)
    \/ \E n \in OpsNumStates : SetupCellStates(n)
    \/ \E r \in Rules : SetupRule(r)
    \/ \E b \in OpsBoundaries, r \in OpsRadii : SetupBoundary(b, r)
    \/ \E sh \in OpsShapes, f \in FillValues : SetupDimensions1d(sh[1], f)
    \/ \E x \in OpsSeeds, hit \in SeedSets : InitCondition(x, hit)
    \/ \E env \in StepEnvs : Step(env)
    \/ PrintGrid

SpecOps == Init /\ [][NextOps]_vars

----------------------------------------------------------------------------
(* SpecFills: a client that chooses the rule, allocates a vector of          *)
(* SeededDim cells with any fill_value, seeds it with any x_state that       *)
(* init_condition accepts, and steps it under the constructor's boundary.    *)

OpsFills == {-1, 0, 1}
OpsStates == -1..MaxStates

NextFills ==
    \/ \E r \in Rules : SetupRule(r)
    \/ \E f \in OpsFills : SetupDimensions1d(SeededDim, f)
    \/ \E x \in OpsStates, hit \in SeedSets : InitCondition(x, hit)
    \/ \E env \in StepEnvs : Step(env)

SpecFills == Init /\ [][NextFills]_vars

----------------------------------------------------------------------------
(* SpecMotion: a client that configures the engine, allocates a 6x6x6       *)
(* tensor filled with the empty state, seeds the single cell (2,2,2) (the    *)
(* draw of init_condition that hits this cell only) and then steps with the  *)
(* custom rule that moves every non-empty cell by +1 along axis 1.           *)

MotionShape == <<6, 6, 6>>
MotionStart == <<2, 2, 2>>

\* the cells of buf that are not empty
NonEmpty(buf) == {c \in DOMAIN buf.cells : buf.cells[c] # 0}

NextMotion ==
    \/ ActiveRank = 0 /\ \E n \in Neighborhoods : SetupNeighborhood(n)
    \/ ActiveRank = 0 /\ \E n \in 2..MaxStates : SetupCellStates(n)
    \/ ActiveRank = 0 /\ \E r \in Rules : SetupRule(r)
    \/ ActiveRank = 0 /\ \E r \in 1..MaxRadius : SetupBoundary("Periodic", r)
    \/ SetupDimensions3d(MotionShape[1], MotionShape[2], MotionShape[3], 0)
    \/ steps_taken = 0 /\ \E x \in 1..MaxStates : InitCondition(x, {MotionStart})
    \/ /\ rule_type = "Custom" /\ (steps_taken > 0 \/ NonEmpty(tensor) = {MotionStart})
       /\ \E env \in StepEnvs : env.custom = "shift" /\ Step(env)

SpecMotion == Init /\ [][NextMotion]_vars

----------------------------------------------------------------------------
(* SpecWalled: a client that selects rule Parity and the Walled boundary of  *)
(* radius 1, allocates a 4x4 matrix with any fill_value, seeds it by calls   *)
(* of init_condition (each draw hitting one anti-diagonal of the matrix) and *)
(* then steps.                                                               *)

WalledShape == <<4, 4>>

\* the draws of init_condition considered: the cells of one anti-diagonal
WalledSeeds ==
    {{c \in Coords(WalledShape) : c[1] + c[2] = d} :
        d \in 0..(WalledShape[1] + WalledShape[2] - 2)}

NextWalled ==
    \/ ActiveRank = 0 /\ \E n \in Neighborhoods : SetupNeighborhood(n)
    \/ ActiveRank = 0 /\ SetupRule("Parity")
    \/ ActiveRank = 0 /\ SetupBoundary("Walled", 1)
    \/ \E f \in FillValues : SetupDimensions2d(WalledShape[1], WalledShape[2], f)
    \/ ActiveRank = 2 /\ steps_taken = 0
          /\ \E x \in FillValues, hit \in WalledSeeds : InitCondition(x, hit)
    \/ /\ rule_type = "Parity" /\ boundary_type = "Walled"
       /\ \E env \in StepEnvs : Step(env)

SpecWalled == Init /\ [][NextWalled]_vars

----------------------------------------------------------------------------
(* SpecUtils: a client that calls the helper functions of CA_utils.cpp and   *)
(* get_neighborhood_size with arguments of its choice, or sets up the        *)
(* neighborhood, a Periodic boundary and one grid of three cells per axis.   *)

\* the offsets di passed to get_periodic_index, beyond the axis size both ways
UtilOffsets == (0 - 2 * MaxDim1)..(2 * MaxDim1)

GetPeriodicIndex(i, di, axis_dim) ==
    /\ call' = [fn |-> "get_periodic_index", args |-> <<i, di, axis_dim>>,
                ret |-> get_periodic_index(i, di, axis_dim)]
    /\ UNCHANGED <<platform, config, dims, buffers, steps_taken, oob>>

GetNeighborhoodSize(rank, radius, ntype) ==
    /\ call' = [fn |-> "get_neighborhood_size", args |-> <<rank, radius, ntype>>,
                ret |-> get_neighborhood_size(rank, radius, ntype)]
    /\ UNCHANGED <<platform, config, dims, buffers, steps_taken, oob>>

GetPeriodicMooreNeighborIndex(rank, radius, q) ==
    /\ call' = [fn |-> "get_periodic_moore_neighbor_index", args |-> <<rank, radius, q>>,
                ret |-> get_periodic_moore_neighbor_index(rank, radius, q)]
    /\ UNCHANGED <<platform, config, dims, buffers, steps_taken, oob>>

GetPeriodicVonNeumannNeighborIndex(rank, radius, q) ==
    /\ call' = [fn |-> "get_periodic_von_neumann_neighbor_index",
                args |-> <<rank, radius, q>>,
                ret |-> get_periodic_von_neumann_neighbor_index(rank, radius, q)]
    /\ UNCHANGED <<platform, config, dims, buffers, steps_taken, oob>>

NextUtils ==
    \/ ActiveRank = 0 /\ \E d \in 1..MaxDim1, di \in UtilOffsets :
          \E i \in 0..(d - 1) : GetPeriodicIndex(i, di, d)
    \/ ActiveRank = 0 /\ \E rank \in 1..3, r \in 1..MaxRadius, n \in Neighborhoods :
          GetNeighborhoodSize(rank, r, n)
    \/ ActiveRank = 0 /\ \E rank \in 1..3, r \in 1..MaxRadius :
          \E q \in 0..(get_neighborhood_size(rank, r, "Moore") - 1) :
              GetPeriodicMooreNeighborIndex(rank, r, q)
    \/ ActiveRank = 0 /\ \E rank \in 1..3, r \in 1..MaxRadius :
          \E q \in 0..(get_neighborhood_size(rank, r, "VonNeumann") - 1) :
              GetPeriodicVonNeumannNeighborIndex(rank, r, q)
    \/ call.fn = "none" /\ \E n \in Neighborhoods : SetupNeighborhood(n)
    \/ call.fn = "none" /\ ActiveRank = 0
          /\ \E r \in 1..MaxRadius : SetupBoundary("Periodic", r)
    \/ call.fn = "none" /\ ActiveRank = 0 /\ SetupDimensions1d(3, 0)
    \/ call.fn = "none" /\ ActiveRank = 0 /\ SetupDimensions2d(3, 3, 0)
    \/ call.fn = "none" /\ ActiveRank = 0 /\ SetupDimensions3d(3, 3, 3, 0)

SpecUtils == Init /\ [][NextUtils]_vars

----------------------------------------------------------------------------
(* Counting, seeding and the number of states *)

\* C11: steps_taken is 0 on a new engine; a call of step that returns 0 adds
\* exactly 1 to it, and a call of step that returns an error and every other
\* operation leave it as it is.
C11_StepsTakenCounts ==
    /\ steps_taken = 0
    /\ [][/\ \A env \in StepEnvs :
                Step(env) => steps_taken' = steps_taken + (IF step(env).ret = 0 THEN 1 ELSE 0)
          /\ (\A env \in StepEnvs : ~Step(env)) => steps_taken' = steps_taken]_vars

\* steps have succeeded on a grid on which a step without a rule function fails
C11_Witness ==
    /\ steps_taken = MaxSteps /\ build = "seq" /\ rule_type = "Custom"
    /\ \E env \in StepEnvs : step(env).ret = CustomRuleIsNull

\* C12: on the 6x6x6 Periodic tensor whose only non-empty cell is (2,2,2),
\* after k steps with the rule that moves every non-empty cell by +1 along
\* axis 1 the only non-empty cell is ((2+k) mod 6, 2, 2), for every k >= 0.
C12_MovingCell ==
    (rule_type = "Custom" /\ (steps_taken > 0 \/ NonEmpty(tensor) = {MotionStart}))
        => NonEmpty(tensor) = {<<(MotionStart[1] + steps_taken) % MotionShape[1],
                                 MotionStart[2], MotionStart[3]>>}

\* C13: with rule Custom and a custom function that leaves the focus cell and
\* its index as they are, the current grid after a step equals the current
\* grid before it, whatever fill_value and init_condition calls made the grid.
C13_IdentityRuleKeepsGrid ==
    [][\A env \in StepEnvs :
        (rule_type = "Custom" /\ env.custom = "identity" /\ ActiveRank # 0 /\ Step(env))
            => Current' = Current]_vars

\* C14: on a 4x4 matrix with the Walled boundary, rule Parity and radius 1,
\* whatever the grid before the first step, every cell of row 0, row 3,
\* column 0 and column 3 holds after each step the value it held before it,
\* and so its initial value after any number of steps.
C14_WalledMatrixBorder ==
    [][(rule_type = "Parity" /\ boundary_type = "Walled" /\ boundary_radius = 1
            /\ matrix.alloc /\ matrix.shape = WalledShape /\ StepSucceeded)
        => \A c \in Coords(WalledShape) :
              (c[1] \in {0, WalledShape[1] - 1} \/ c[2] \in {0, WalledShape[2] - 1})
                  => matrix'.cells[c] = matrix.cells[c]]_vars

\* the code init_condition is specified to return for x
InitConditionCode(x) ==
    IF x >= num_states THEN InvalidCellStateCondition
    ELSE IF ActiveRank = 0 THEN CellsAreNull ELSE 0

\* C15: init_condition(x, p) returns InvalidCellStateCondition when
\* x >= num_states, with or without a grid, and CellsAreNull when x < num_states
\* and no grid is configured; in both cases no cell of a buffer and no
\* configuration field changes.
C15_InitConditionCodes ==
    /\ [](\A x \in OpsSeeds : init_condition(x) = InitConditionCode(x))
    /\ [][\A x \in OpsSeeds, hit \in SeedSets :
            (InitCondition(x, hit) /\ InitConditionCode(x) # 0)
                => UNCHANGED <<config, dims, buffers>>]_vars

\* before a grid is configured a state above the valid ones and a valid one
\* are both refused, each with its own code
C15_Witness ==
    /\ ActiveRank = 0 /\ num_states = MaxStates
    /\ init_condition(MaxStates) = InvalidCellStateCondition
    /\ init_condition(MaxStates - 1) = CellsAreNull

\* C16: setup_cell_states(n) returns InvalidNumStates and keeps num_states
\* when n < 2, returns 0 and stores n otherwise; so num_states >= 2 always.
C16_NumStatesAtLeastTwo ==
    /\ [](num_states >= 2)
    /\ [](\A n \in OpsNumStates :
            setup_cell_states(n) = (IF n < 2 THEN InvalidNumStates ELSE 0))
    /\ [][\A n \in OpsNumStates : SetupCellStates(n) =>
            /\ n < 2 => num_states' = num_states
            /\ n >= 2 => num_states' = n]_vars

\* setup_cell_states has stored a number of states other than the constructor's,
\* and refuses 1
C16_Witness == num_states = MaxStates /\ setup_cell_states(1) = InvalidNumStates

\* C17: the state rule Parity computes for a focus cell lies in
\* [0, num_states), whatever fill_value and x_state made the grid.
C17_ParityStateInRange ==
    (rule_type = "Parity" /\ ActiveRank # 0) =>
        \A c \in GridCells, env \in StepEnvs :
            set_new_cell_state(c, NeighborhoodCells(Eager(NeighborhoodReads(c)), env.g),
                               Current.cells[c], env).state \in 0..(num_states - 1)

----------------------------------------------------------------------------
(* The helper functions *)

\* the index in [0, D) congruent to i + di modulo D
Wrap(i, di, D) == (((i + di) % D) + D) % D

\* C18: get_periodic_index(i, di, D) returns ((i + di) mod D + D) mod D, the
\* index in [0, D) congruent to i + di, for every i in [0, D), every D >= 1
\* and every signed offset di, offsets below -D included.
C18_PeriodicIndexWraps ==
    call.fn = "get_periodic_index"
        => call.ret = Wrap(call.args[1], call.args[2], call.args[3])

\* the size of a neighborhood as specified: (2r+1)^rank cells for Moore,
\* 2*rank*r + 1 for VonNeumann
SpecSize(rank, r, ntype) ==
    IF ntype = "Moore"
    THEN (IF rank = 1 THEN 2 * r + 1
          ELSE IF rank = 2 THEN (2 * r + 1) * (2 * r + 1)
          ELSE (2 * r + 1) * (2 * r + 1) * (2 * r + 1))
    ELSE 2 * rank * r + 1

\* C19: for rank 1, 2, 3 and every radius get_neighborhood_size returns
\* (2r+1)^rank for Moore and 2*rank*r+1 for VonNeumann, and the Periodic
\* generation emits exactly that many cells for every focus cell, so the
\* neighborhood array is filled exactly.
C19_NeighborhoodSize ==
    /\ call.fn = "get_neighborhood_size"
          => call.ret = SpecSize(call.args[1], call.args[2], call.args[3])
    /\ (ActiveRank # 0 /\ boundary_type = "Periodic")
          => \A c \in GridCells :
                /\ Len(NeighborhoodReads(c))
                      = get_neighborhood_size(ActiveRank, boundary_radius, neighborhood_type)
                /\ Len(NeighborhoodReads(c))
                      = SpecSize(ActiveRank, boundary_radius, neighborhood_type)

\* a tensor under the VonNeumann neighborhood of the largest radius
C19_Witness ==
    /\ ActiveRank = 3 /\ boundary_type = "Periodic"
    /\ neighborhood_type = "VonNeumann" /\ boundary_radius = MaxRadius
    /\ Len(NeighborhoodReads(<<0, 0, 0>>)) = 6 * MaxRadius + 1

\* the call returned the q-th offset the loops emit, inside [-r, r], and no
\* other flat index of the neighborhood is mapped to the same offset
FlatIndexAgrees(ntype, flat(_, _, _)) ==
    LET rank == call.args[1]
        r == call.args[2]
        q == call.args[3]
        offs == OffsetTable[rank][ntype][r]
    IN /\ call.ret = offs[q + 1]
       /\ \A a \in 1..rank : call.ret[a] \in (0 - r)..r
       /\ \A p \in 0..(Len(offs) - 1) : p # q => flat(rank, r, p) # call.ret

\* C20: for rank 1, 2, 3, every radius and both shapes, the flat-index-to-offset
\* function applied to q returns the q-th offset in the order in which the
\* Periodic neighborhood loops emit neighbors; every component lies in
\* [-r, r] and distinct q give distinct offsets.
C20_FlatIndexToOffset ==
    /\ call.fn = "get_periodic_moore_neighbor_index"
          => FlatIndexAgrees("Moore", get_periodic_moore_neighbor_index)
    /\ call.fn = "get_periodic_von_neumann_neighbor_index"
          => FlatIndexAgrees("VonNeumann", get_periodic_von_neumann_neighbor_index)

\* the last flat index of the largest VonNeumann neighborhood of a tensor was
\* converted
C20_Witness ==
    /\ call.fn = "get_periodic_von_neumann_neighbor_index"
    /\ call.args = <<3, MaxRadius, 6 * MaxRadius>>
    /\ call.ret = <<MaxRadius, 0, 0>>

----------------------------------------------------------------------------
(* SpecAlloc: a client that sets the rule and the number of states, then     *)
(* calls the setup_dimensions_* methods in any order while memory can run    *)
(* out (any of the two top-level allocations of a call can return nullptr),  *)
(* seeds the grid and prints it; it calls step only while no grid pointer    *)
(* is set.                                                                   *)

AllocShapes3 == {<<1, 2, 2>>}

NextAlloc ==
    \/ ActiveRank = 0 /\ \E r \in Rules : SetupRule(r)
    \/ ActiveRank = 0 /\ \E n \in {1, MaxStates} : SetupCellStates(n)
    \/ \E sh \in OpsShapes, f \in FillValues, mem \in AllocOutcomes :
          SetupDimensions1dMem(sh[1], f, mem)
    \/ \E sh \in Shapes2, f \in FillValues, mem \in AllocOutcomes :
          SetupDimensions2dMem(sh[1], sh[2], f, mem)
    \/ \E sh \in AllocShapes3, f \in FillValues, mem \in AllocOutcomes :
          SetupDimensions3dMem(sh[1], sh[2], sh[3], f, mem)
    \/ \E x \in {1, MaxStates}, hit \in SeedSets : InitCondition(x, hit)
    \/ ActiveRank = 0 /\ \E env \in StepEnvs : Step(env)
    \/ PrintGrid

SpecAlloc == Init /\ [][NextAlloc]_vars

\* C21: when an allocation fails inside setup_dimensions_1d, _2d or _3d the
\* call returns CellsMalloc and leaves both pointers of its grid null (what it
\* had allocated is released), so a later call is not refused with
\* CellsAlreadyInitialized and no grid exists with one buffer missing.
C21_AllocationFailureReleases ==
    [][\A mem \in AllocOutcomes \ {AllocOk}, f \in FillValues :
        /\ \A sh \in OpsShapes :
              (~vector.alloc /\ SetupDimensions1dMem(sh[1], f, mem))
                  => /\ setup_dimensions_1d_mem(sh[1], f, mem) = CellsMalloc
                     /\ ~vector'.alloc /\ ~next_vector'.alloc
        /\ \A sh \in Shapes2 :
              (~matrix.alloc /\ SetupDimensions2dMem(sh[1], sh[2], f, mem))
                  => /\ setup_dimensions_2d_mem(sh[1], sh[2], f, mem) = CellsMalloc
                     /\ ~matrix'.alloc /\ ~next_matrix'.alloc
        /\ \A sh \in AllocShapes3 :
              (~tensor.alloc /\ SetupDimensions3dMem(sh[1], sh[2], sh[3], f, mem))
                  => /\ setup_dimensions_3d_mem(sh[1], sh[2], sh[3], f, mem) = CellsMalloc
                     /\ ~tensor'.alloc /\ ~next_tensor'.alloc]_vars

\* no call of setup_dimensions_1d, _2d or _3d has returned 0: a call that
\* succeeds sets both pointers of its grid, and no other call leaves both set
NoSetupSucceeded ==
    /\ ~(vector.alloc /\ next_vector.alloc)
    /\ ~(matrix.alloc /\ next_matrix.alloc)
    /\ ~(tensor.alloc /\ next_tensor.alloc)

\* C22: on an engine on which no setup_dimensions_* call has succeeded,
\* print_grid, init_condition (with x < num_states) and step each return
\* CellsAreNull and leave the configuration fields and steps_taken as they
\* are, and the engine stays without a grid.
C22_UnconfiguredReturnsNull ==
    /\ [](NoSetupSucceeded =>
            /\ print_grid = CellsAreNull
            /\ \A x \in {1, MaxStates} : x < num_states => init_condition(x) = CellsAreNull
            /\ \A env \in StepEnvs : step(env).ret = CellsAreNull)
    /\ [][(NoSetupSucceeded /\ (\/ PrintGrid
                                \/ \E env \in StepEnvs : Step(env)
                                \/ \E x \in {1, MaxStates}, hit \in SeedSets :
                                      x < num_states /\ InitCondition(x, hit)))
            => UNCHANGED <<config, steps_taken>> /\ NoSetupSucceeded']_vars

----------------------------------------------------------------------------
(* SpecOrder: a client that configures the engine, allocates a vector of     *)
(* three cells, seeds single cells with states below num_states and steps;   *)
(* under rule Custom it passes the rule that gathers the non-empty cells at  *)
(* index 0.  In the build with ENABLE_OMP the stores of a step take place    *)
(* in any order.                                                             *)

OrderShapes == {<<3>>}
OrderBoundaries == {"Periodic", "Walled"}

\* the calls of step of this client
OrderEnvs ==
    [custom : IF rule_type = "Custom" THEN {"gather"} ELSE {"null"},
     vo : IF rule_type = "Majority" THEN VotesOrders ELSE {<<>>},
     g : IF MayReadOutside THEN Garbage ELSE {0},
     cancel : {FALSE}, nt : {1}]

NextOrder ==
    \/ ActiveRank = 0 /\ SetupCellStates(MaxStates)
    \/ ActiveRank = 0 /\ \E r \in Rules : SetupRule(r)
    \/ ActiveRank = 0 /\ \E b \in OrderBoundaries : SetupBoundary(b, 1)
    \/ \E sh \in OrderShapes : SetupDimensions1d(sh[1], 0)
    \/ steps_taken = 0 /\ ActiveRank # 0
          /\ \E x \in 1..(MaxStates - 1), c \in SeqRange(LoopCells) : InitCondition(x, {c})
    \/ build = "seq" /\ ActiveRank # 0 /\ \E env \in OrderEnvs : Step(env)
    \/ \E env \in OrderEnvs, sched \in Perms(Len(LoopCells)) : StepScheduled(env, sched)

SpecOrder == Init /\ [][NextOrder]_vars

\* the positions in the iteration order of the focus cells whose new value
\* is not empty and whose coordinate after the rule of env is d
Colliding(env, d) ==
    {q \in 1..Len(LoopCells) :
        /\ CellResults(LoopCells, env)[LoopCells[q]].state # 0
        /\ CellResults(LoopCells, env)[LoopCells[q]].index = d}

\* the largest element of a non-empty set of positions
Latest(qs) == CHOOSE q \in qs : \A o \in qs : o <= q

\* C23: in the sequential build, when a Custom rule sends two focus cells with
\* non-empty new values to the same coordinate in one step, that cell of the
\* grid after the step holds the value of the focus cell that comes later in
\* the row-major iteration order.
C23_LaterWriteWins ==
    [][\A env \in OrderEnvs :
        (build = "seq" /\ rule_type = "Custom" /\ ActiveRank # 0 /\ Step(env))
            => \A d \in GridCells :
                  Cardinality(Colliding(env, d)) >= 2
                      => Current'.cells[d]
                            = CellResults(LoopCells, env)[
                                  LoopCells[Latest(Colliding(env, d))]].state]_vars

\* a sequential step has gathered the cells 0 and 2, which held the states 1
\* and 2, at index 0
C23_Witness ==
    /\ build = "seq" /\ rule_type = "Custom" /\ steps_taken = 1 /\ vector.alloc
    /\ next_vector.cells[<<0>>] = 1 /\ next_vector.cells[<<2>>] = 2
    /\ vector.cells[<<0>>] = 2

----------------------------------------------------------------------------
(* The two buffers of a step *)

\* the coordinates to which some focus cell of step(env) stores its new value
Written(env) ==
    {CellResults(LoopCells, env)[c].index :
        c \in {f \in GridCells : CellResults(LoopCells, env)[f].state # 0}}

\* C24: when a step starts to apply the rule, the first step and every later
\* one, every cell of the next buffer is empty; so after the step every
\* coordinate to which no focus cell wrote is empty.
C24_NextBufferReset ==
    [][\A env \in StepEnvs : (ActiveRank # 0 /\ Step(env) /\ StepSucceeded) =>
        /\ \A c \in DOMAIN NextBuf.cells : NextBuf.cells[c] = 0
        /\ \A d \in GridCells : d \notin Written(env) => Current'.cells[d] = 0]_vars

\* the next buffer when the loop of step(env) is left, before swap_states
NextBeforeSwap(env) ==
    StoreAll(NextBuf, Eager(Stores(LoopCells, CellResults(LoopCells, env), env)))

\* C25: the rule phase of a step writes no cell of the current buffer and the
\* swap exchanges the buffers cell for cell: right after a successful step the
\* next buffer equals the current grid of before the step, and the current
\* buffer equals the next buffer as it stood just before the swap.
C25_DoubleBufferSwap ==
    [][\A env \in StepEnvs : (StepSucceeded /\ ActiveRank # 0 /\ Step(env)) =>
        \A c \in GridCells :
            /\ NextBuf'.cells[c] = Current.cells[c]
            /\ Current'.cells[c] = NextBeforeSwap(env).cells[c]]_vars

\* the rule that moves the non-empty cells has moved the cell seeded at index 0
\* to index 1, and the next buffer holds the grid of before the step
C25_Witness ==
    /\ rule_type = "Custom" /\ steps_taken = 1 /\ vector.alloc
    /\ vector.cells[<<0>>] = 0 /\ vector.cells[<<1>>] = 1
    /\ next_vector.cells[<<0>>] = 1 /\ next_vector.cells[<<1>>] = 0

\* the focus cells whose new value in results is not empty and whose
\* coordinate after the rule is d
WritersIn(results, d) ==
    {c \in GridCells : results[c].state # 0 /\ results[c].index = d}

WritersOf(env, d) == WritersIn(CellResults(LoopCells, env), d)

----------------------------------------------------------------------------
(* SpecStruct: the template CellularAutomata<T> for a cell type T that is a  *)
(* struct with a state and one more field, mass (as GalaxyCell has).  A      *)
(* client sets the rule and the number of states; the loop body of step is   *)
(* run for a focus cell of a vector under radius 1: the neighborhood holds   *)
(* its left neighbor, the focus and its right neighbor.  The fields other    *)
(* than state are what the client wrote through get_vector().                *)

StructMasses == {0, 1}

\* a default-constructed T
DefaultCell == [state |-> 0, mass |-> 0]

\* the cells a grid of T can hold under the current num_states
StructCells == [state : 0..(num_states - 1), mass : StructMasses]

\* the .state of every cell of a sequence
StatesOf(cells) == [q \in 1..Len(cells) |-> cells[q].state]

\* new_cell_state after CellularAutomata<T>::set_new_cell_state under Parity
\* and Majority: the rule assigns new_cell_state.state and no other field
set_new_cell_state_T(vals, new, vo) ==
    CASE rule_type = "Parity" -> [new EXCEPT !.state = ParityState(StatesOf(vals))]
      [] rule_type = "Majority" -> [new EXCEPT !.state = MaxElement(StatesOf(vals), vo)]
      [] OTHER -> new

\* new_cell_state = vector[i]; get_state_from_neighborhood_1d(..., new_cell_state, ...):
\* the value the loop body of step produces for the focus, the middle cell of vals
step_cell(vals, vo) == set_new_cell_state_T(vals, vals[2], vo)

StepCell(vals, vo) ==
    /\ rule_type \in {"Parity", "Majority"}
    /\ call' = [fn |-> "step_cell", args |-> vals, ret |-> step_cell(vals, vo)]
    /\ UNCHANGED <<platform, config, dims, buffers, steps_taken, oob>>

NextStruct ==
    \/ call.fn = "none" /\ \E r \in {"Parity", "Majority"} : SetupRule(r)
    \/ call.fn = "none" /\ \E n \in 2..MaxStates : SetupCellStates(n)
    \/ \E vals \in [1..3 -> StructCells], vo \in VotesOrders : StepCell(vals, vo)

SpecStruct == Init /\ [][NextStruct]_vars

\* C27: under rule Parity and under rule Majority the value produced for a
\* focus cell of a struct cell type has every field other than state at the
\* default value of the cell type, whatever the focus cell held.
C27_OtherFieldsReset ==
    call.fn = "step_cell" => call.ret.mass = DefaultCell.mass

----------------------------------------------------------------------------
(* The shape of the VonNeumann neighborhood *)

\* the offsets of [-r, r]^rank with at most one non-zero component
Cross(rank, r) ==
    {o \in [1..rank -> (0 - r)..r] : Cardinality({a \in 1..rank : o[a] # 0}) <= 1}

\* C28: for rank 2 and rank 3 and every radius r >= 1 the offsets emitted for
\* a VonNeumann neighborhood (the Moore box without the offsets the
\* is_diagonal_neighboring_cell functions reject) are exactly the offsets of
\* [-r, r]^rank with at most one non-zero component, 2*rank*r + 1 of them.
C28_VonNeumannCross ==
    (ActiveRank \in {2, 3} /\ neighborhood_type = "VonNeumann") =>
        /\ SeqRange(Offsets(ActiveRank)) = Cross(ActiveRank, boundary_radius)
        /\ Len(Offsets(ActiveRank)) = 2 * ActiveRank * boundary_radius + 1
        /\ \A c \in GridCells : Len(NeighborhoodReads(c)) = Len(Offsets(ActiveRank))

\* a tensor under the VonNeumann neighborhood of the largest radius: the end
\* of the third axis is kept, an offset off two axes is not
C28_Witness ==
    /\ ActiveRank = 3 /\ neighborhood_type = "VonNeumann" /\ boundary_radius = MaxRadius
    /\ <<0, 0, MaxRadius>> \in SeqRange(Offsets(3))
    /\ <<1, 0, 1>> \notin SeqRange(Offsets(3))

----------------------------------------------------------------------------
(* The parallel loop *)

\* C29: under the rules that leave the focus coordinate as it is (Parity,
\* Majority, the frozen edge cells of Walled) at most one iteration of a step
\* writes each coordinate of next, so the buffers after the step are the same
\* for every order in which the iterations of the parallel loop store.
C29_OrderIndependent ==
    (rule_type \in {"Parity", "Majority"} /\ ActiveRank # 0) =>
        \A env \in OrderEnvs :
            /\ \A d \in GridCells : Cardinality(WritersOf(env, d)) <= 1
            /\ \E r \in {step(env)} :
                  \A sched \in Perms(Len(LoopCells)) : step_scheduled(env, sched) = r

\* a parallel Parity step in which each of the three iterations stored state 1
\* into its own cell
C29_Witness ==
    /\ build = "omp" /\ rule_type = "Parity" /\ boundary_type = "Periodic"
    /\ steps_taken = 1 /\ vector.alloc
    /\ \A c \in DOMAIN vector.cells : vector.cells[c] = 1
    /\ next_vector.cells[<<0>>] = 1 /\ next_vector.cells[<<1>>] = 0

----------------------------------------------------------------------------
(* The reads of the neighborhood generators *)

\* C30: in every reachable configuration (any rank, boundary type and radius
\* that setup_boundary accepted, the setup calls in any order) every read of
\* the current grid that step makes to build the neighborhood of a focus
\* cell uses a coordinate inside [0, Di) on every active axis.
C30_ReadsInsideGrid ==
    ActiveRank # 0 =>
        \A c \in GridCells :
            (boundary_type = "Walled" /\ IsWalledEdge(c)) \/
            \A q \in 1..Len(NeighborhoodReads(c)) :
                \A a \in 1..ActiveRank :
                    NeighborhoodReads(c)[q][a] \in 0..(AxisDim(a) - 1)

====
